---- MODULE Spec2Model ----
(***************************************************************************)
(* confguard: the guard / unguard transactions of src/confguard/main.py    *)
(* over the services of src/confguard/services.py, on a model of the       *)
(* POSIX file system the services act on through pathlib / shutil / os.    *)
(*                                                                         *)
(* A path is a sequence of names; the file system `fs` maps every path     *)
(* that exists (lstat succeeds) to its node: a regular file with a content *)
(* id, a directory, or a symbolic link holding the path it points to.      *)
(***************************************************************************)
EXTENDS Integers, Sequences, FiniteSets, TLC

(***************************************************************************)
(* Bounds of the model.                                                    *)
(***************************************************************************)
\* how many steps one run makes: invocations of guard / unguard, and edits of
\* the targets by the user
MaxOps == 3
\* how many injected file-system faults (a system call raising OSError) per run
MaxFaults == 1
\* how many distinct sentinel identifiers uuid4 can draw
MaxSentinels == 2
\* symbolic links followed while resolving one path (the kernel's ELOOP limit)
MaxLinkDepth == 4

(***************************************************************************)
(* Names and paths.                                                        *)
(***************************************************************************)
\* the project directory (source_dir) and the storage root (config.confguard_path)
SourceDir == <<"S">>
ConfguardPath == <<"R">>
\* environment.py: CONFGUARD_BKP_DIR = ".confguard.bkp"
CONFGUARD_BKP_DIR == "B"
\* config.sentinel is None
None == 0
Ids == 1..MaxSentinels
\* the directory name of a sentinel, f"{p}-{uuid}" in the source; str(None) for None
SentinelName(s) == ToString(s)
\* f".{config.sentinel}.confguard"
BackLinkName(s) == "L" \o ToString(s)

\* the targets of tests/resources/test_proj: .envrc (a file), .run (a directory
\* holding one file) and xxx/xxx.txt (a file in a sub-directory)
T_envrc == <<"f">>
T_run == <<"d">>
T_xxx == <<"x", "t">>
AllTargets == {T_envrc, T_run, T_xxx}

FileN(c) == [kind |-> "file", c |-> c, to |-> <<>>]
DirN == [kind |-> "dir", c |-> "", to |-> <<>>]
LinkN(p) == [kind |-> "link", c |-> "", to |-> p]

\* the result of a call: the file system it leaves, whether it returned (ok) or
\* raised, and whether the exception is an injected fault (inj)
Ret(fs) == [fs |-> fs, ok |-> TRUE, inj |-> FALSE]
Raise(fs) == [fs |-> fs, ok |-> FALSE, inj |-> FALSE]
Inject(fs) == [fs |-> fs, ok |-> FALSE, inj |-> TRUE]

Missing == <<"?">>
Parent(p) == SubSeq(p, 1, Len(p) - 1)
Name(p) == p[Len(p)]
IsPrefix(p, q) == Len(p) <= Len(q) /\ SubSeq(q, 1, Len(p)) = p
Rebase(r, from, to) == to \o SubSeq(r, Len(from) + 1, Len(r))
Under(fs, q) == {r \in DOMAIN fs : IsPrefix(q, r)}
Children(fs, q) == {r \in DOMAIN fs : Len(r) = Len(q) + 1 /\ IsPrefix(q, r)}
KindAt(fs, q) == IF q = Missing \/ q \notin DOMAIN fs THEN "none" ELSE fs[q].kind
Put(fs, q, node) == [r \in DOMAIN fs \cup {q} |-> IF r = q THEN node ELSE fs[r]]
Drop(fs, qs) == [r \in DOMAIN fs \ qs |-> fs[r]]

\* r, and then F on the file system r leaves, unless r raised
Then(r, F(_)) == IF r.ok THEN F(r.fs) ELSE r

(***************************************************************************)
(* Path resolution, as the kernel does it.  Real follows every symbolic    *)
(* link (stat); LReal follows the links of the parent only (lstat); WReal  *)
(* is where open(p, "w") writes: links are followed, the last component    *)
(* may be absent.                                                          *)
(***************************************************************************)
RECURSIVE Real(_, _, _)
RECURSIVE WReal(_, _, _)
\* the entry nm of the resolved directory par
EntryOf(fs, par, nm) ==
    IF KindAt(fs, par) # "dir" THEN Missing ELSE Append(par, nm)

LReal(fs, p, n) ==
    IF Len(p) <= 1 THEN p ELSE EntryOf(fs, Real(fs, Parent(p), n), Name(p))

Follow(fs, q, n) ==
    IF KindAt(fs, q) = "none" THEN Missing
    ELSE IF fs[q].kind # "link" THEN q
    ELSE IF n = 0 THEN Missing
    ELSE Real(fs, fs[q].to, n - 1)

Real(fs, p, n) == Follow(fs, LReal(fs, p, n), n)

WFollow(fs, q, n) ==
    IF KindAt(fs, q) # "link" THEN q
    ELSE IF n = 0 THEN Missing
    ELSE WReal(fs, fs[q].to, n - 1)

WReal(fs, p, n) == WFollow(fs, LReal(fs, p, n), n)

\* pathlib: Path.exists / is_file / is_dir follow links, is_symlink does not
Exists(fs, p) == Real(fs, p, MaxLinkDepth) # Missing
IsFile(fs, p) == KindAt(fs, Real(fs, p, MaxLinkDepth)) = "file"
IsDir(fs, p) == KindAt(fs, Real(fs, p, MaxLinkDepth)) = "dir"
LExists(fs, p) == KindAt(fs, LReal(fs, p, MaxLinkDepth)) # "none"
IsSymlink(fs, p) == KindAt(fs, LReal(fs, p, MaxLinkDepth)) = "link"

(***************************************************************************)
(* System calls.  The ...At operators take resolved paths.                 *)
(***************************************************************************)
CreateAt(fs, q, node) ==
    IF q = Missing \/ q \in DOMAIN fs THEN Raise(fs) ELSE Ret(Put(fs, q, node))

\* os.mkdir(p): the parent must be a directory and p must not exist
os_mkdir(fs, p) == CreateAt(fs, LReal(fs, p, MaxLinkDepth), DirN)

\* os.symlink with the link put over whatever file or link is at p
os_symlink_over(fs, to, p) ==
    IF KindAt(fs, LReal(fs, p, MaxLinkDepth)) \in {"file", "link"}
    THEN Ret(Put(fs, LReal(fs, p, MaxLinkDepth), LinkN(to)))
    ELSE CreateAt(fs, LReal(fs, p, MaxLinkDepth), LinkN(to))

\* os.symlink(to, p): p must not exist (not even as a dangling link)
os_symlink(fs, to, p) == CreateAt(fs, LReal(fs, p, MaxLinkDepth), LinkN(to))

\* Path.mkdir(parents=True, exist_ok=exist_ok)
RECURSIVE Path_mkdir(_, _, _)
Path_mkdir(fs, p, exist_ok) ==
    IF LExists(fs, p)
    THEN IF exist_ok /\ IsDir(fs, p) THEN Ret(fs) ELSE Raise(fs)
    ELSE IF Len(p) <= 1 THEN Raise(fs)
    ELSE IF LReal(fs, p, MaxLinkDepth) = Missing
    THEN Then(Path_mkdir(fs, Parent(p), TRUE), LAMBDA g : os_mkdir(g, p))
    ELSE os_mkdir(fs, p)

UnlinkAt(fs, q) ==
    IF KindAt(fs, q) \in {"none", "dir"} THEN Raise(fs) ELSE Ret(Drop(fs, {q}))

\* os.unlink(p): removes a file or a link, never a directory
os_unlink(fs, p) == UnlinkAt(fs, LReal(fs, p, MaxLinkDepth))

RenameAt(fs, la, lb) ==
    IF lb = Missing \/ KindAt(fs, la) = "none" THEN Raise(fs)
    ELSE IF la = lb THEN Ret(fs)
    ELSE IF IsPrefix(la, lb) THEN Raise(fs)
    ELSE IF lb \in DOMAIN fs
            /\ \/ (fs[la].kind = "dir") # (fs[lb].kind = "dir")
               \/ Children(fs, lb) # {}
    THEN Raise(fs)
    ELSE Ret([r \in (DOMAIN fs \ (Under(fs, la) \cup {lb}))
                    \cup {Rebase(s, la, lb) : s \in Under(fs, la)} |->
                 IF IsPrefix(lb, r) THEN fs[Rebase(r, lb, la)] ELSE fs[r]])

\* os.rename(a, b): moves the entry a itself (a link is not followed) with all
\* below it; b may be replaced when it is a non-directory (a not a directory) or
\* an empty directory (a a directory)
os_rename(fs, a, b) ==
    RenameAt(fs, LReal(fs, a, MaxLinkDepth), LReal(fs, b, MaxLinkDepth))

RmtreeAt(fs, q) ==
    IF KindAt(fs, q) # "dir" THEN Raise(fs) ELSE Ret(Drop(fs, Under(fs, q)))

\* shutil.rmtree(p): p must be a real directory (not a link, not missing)
shutil_rmtree(fs, p) == RmtreeAt(fs, LReal(fs, p, MaxLinkDepth))

Copy2At(fs, ra, wb) ==
    IF KindAt(fs, ra) # "file" \/ wb = Missing \/ ra = wb THEN Raise(fs)
    ELSE IF KindAt(fs, wb) = "dir" THEN Raise(fs)
    ELSE Ret(Put(fs, wb, FileN(fs[ra].c)))

\* shutil.copy2(a, b): a is followed; the content is written where b leads
\* (through a link, creating the file when absent, into b when b is a directory)
shutil_copy2(fs, a, b) ==
    Copy2At(fs, Real(fs, a, MaxLinkDepth),
            WReal(fs, IF IsDir(fs, b) THEN Append(b, Name(a)) ELSE b, MaxLinkDepth))

\* shutil.copytree(a, b, dirs_exist_ok): os.makedirs(b, exist_ok), then every
\* entry of a: a directory recursively, anything else with copy2; the errors
\* of the entries are collected and raised at the end
RECURSIVE shutil_copytree(_, _, _, _)
RECURSIVE copy_entries(_, _, _, _, _, _)
copy_rest(one, a, b, names, ok, dirs_exist_ok) ==
    copy_entries(one.fs, a, b, names, ok /\ one.ok, dirs_exist_ok)

copy_entry(fs, a, b, nm, names, ok, dirs_exist_ok) ==
    copy_rest(IF IsDir(fs, Append(a, nm))
              THEN shutil_copytree(fs, Append(a, nm), Append(b, nm), dirs_exist_ok)
              ELSE shutil_copy2(fs, Append(a, nm), Append(b, nm)),
              a, b, names \ {nm}, ok, dirs_exist_ok)

copy_entries(fs, a, b, names, ok, dirs_exist_ok) ==
    IF names = {} THEN (IF ok THEN Ret(fs) ELSE Raise(fs))
    ELSE copy_entry(fs, a, b, CHOOSE x \in names : TRUE, names, ok, dirs_exist_ok)

shutil_copytree(fs, a, b, dirs_exist_ok) ==
    IF ~IsDir(fs, a) THEN Raise(fs)
    ELSE Then(Path_mkdir(fs, b, dirs_exist_ok),
              LAMBDA g : copy_entries(g, a, b,
                            {Name(r) : r \in Children(fs, Real(fs, a, MaxLinkDepth))},
                            TRUE, dirs_exist_ok))

(***************************************************************************)
(* services.py: Files.  Every loop takes `ft`, the number of the target at *)
(* whose mutating system call an injected fault is raised (0: no fault).   *)
(* An injected fault is raised before the call has changed anything: a     *)
(* failing copytree or rmtree is the one that fails at its first entry.    *)
(***************************************************************************)
\* Files.create_bkp without the is_symlink test: a symlinked target is copied
\* from where its link leads
create_bkp_one_following(fs, src_path, bkp_path, fault) ==
    IF Exists(fs, src_path)
    THEN IF fault THEN Inject(fs)
         ELSE IF IsFile(fs, src_path)
         THEN Then(IF Exists(fs, Parent(bkp_path)) THEN Ret(fs)
                   ELSE Path_mkdir(fs, Parent(bkp_path), FALSE),
                   LAMBDA g : shutil_copy2(g, src_path, bkp_path))
         ELSE shutil_copytree(fs, src_path, bkp_path, FALSE)
    ELSE Ret(fs)

\* Files.create_bkp, the body of the loop for one target
create_bkp_one(fs, src_path, bkp_path, fault) ==
    IF Exists(fs, src_path) /\ ~IsSymlink(fs, src_path)
    THEN IF fault THEN Inject(fs)
         ELSE IF IsFile(fs, src_path)
         THEN Then(IF Exists(fs, Parent(bkp_path)) THEN Ret(fs)
                   ELSE Path_mkdir(fs, Parent(bkp_path), FALSE),
                   LAMBDA g : shutil_copy2(g, src_path, bkp_path))
         ELSE shutil_copytree(fs, src_path, bkp_path, FALSE)
    ELSE Ret(fs)

\* Files.create_bkp, the loop over self.targets from target i on
RECURSIVE create_bkp_loop(_, _, _, _, _, _)
create_bkp_loop(fs, targets, source_dir, bkp_dir, ft, i) ==
    IF i > Len(targets) THEN Ret(fs)
    ELSE Then(create_bkp_one(fs, source_dir \o targets[i], bkp_dir \o targets[i], ft = i),
              LAMBDA g : create_bkp_loop(g, targets, source_dir, bkp_dir, ft, i + 1))

\* Files.create_bkp with mkdir(exist_ok=True): an existing backup is written over
create_bkp_overwriting(fs, targets, source_dir, bkp_dir, ft) ==
    IF ft = Len(targets) + 1 THEN Inject(fs)
    ELSE Then(Path_mkdir(fs, bkp_dir, TRUE),
              LAMBDA g : create_bkp_loop(g, targets, source_dir, bkp_dir, ft, 1))

\* Files.create_bkp(source_dir, bkp_dir); ft = Len(targets) + 1 fails the mkdir
create_bkp(fs, targets, source_dir, bkp_dir, ft) ==
    IF LExists(fs, bkp_dir) THEN Raise(fs)
    ELSE IF ft = Len(targets) + 1 THEN Inject(fs)
    ELSE Then(Path_mkdir(fs, bkp_dir, FALSE),
              LAMBDA g : create_bkp_loop(g, targets, source_dir, bkp_dir, ft, 1))

\* Files.move_files with a copy in the place of the rename: the target stays
\* where it was
move_files_one_copying(fs, src_path, tgt_path, fault) ==
    IF Exists(fs, src_path)
    THEN Then(IF Exists(fs, Parent(tgt_path)) THEN Ret(fs)
              ELSE Path_mkdir(fs, Parent(tgt_path), FALSE),
              LAMBDA g : IF fault THEN Inject(g)
                         ELSE IF IsDir(g, src_path)
                         THEN shutil_copytree(g, src_path, tgt_path, FALSE)
                         ELSE shutil_copy2(g, src_path, tgt_path))
    ELSE Ret(fs)

\* Files.move_files, the body of the loop for one target
move_files_one(fs, src_path, tgt_path, fault) ==
    IF Exists(fs, src_path)
    THEN Then(IF Exists(fs, Parent(tgt_path)) THEN Ret(fs)
              ELSE Path_mkdir(fs, Parent(tgt_path), FALSE),
              LAMBDA g : IF fault THEN Inject(g) ELSE os_rename(g, src_path, tgt_path))
    ELSE Ret(fs)

\* Files.move_files, the loop over self.targets from target i on
RECURSIVE move_files_loop(_, _, _, _, _, _)
move_files_loop(fs, targets, source_dir, target_dir, ft, i) ==
    IF i > Len(targets) THEN Ret(fs)
    ELSE Then(move_files_one(fs, source_dir \o targets[i], target_dir \o targets[i], ft = i),
              LAMBDA g : move_files_loop(g, targets, source_dir, target_dir, ft, i + 1))

\* Files.move_files(source_dir, target_dir)
move_files(fs, targets, source_dir, target_dir, ft) ==
    Then(Path_mkdir(fs, target_dir, TRUE),
         LAMBDA g : move_files_loop(g, targets, source_dir, target_dir, ft, 1))

\* Files.return_files(source_dir, target_dir); ft = Len(targets) + 1 fails rmtree
return_files(fs, targets, source_dir, target_dir, ft) ==
    Then(move_files(fs, targets, target_dir, source_dir, ft),
         LAMBDA g : IF ft = Len(targets) + 1 THEN Inject(g)
                    ELSE shutil_rmtree(g, target_dir))

\* Files.restore_bkp, a backup entry that is a file: the parent directory (under
\* self.source_dir), the unlink of a link, and the copy unless the path exists
restore_bkp_file(fs, bkp_path, src_path, own_parent) ==
    Then(Then(IF Exists(fs, own_parent) THEN Ret(fs)
              ELSE Path_mkdir(fs, own_parent, TRUE),
              LAMBDA g : IF Exists(g, src_path) /\ IsSymlink(g, src_path)
                         THEN os_unlink(g, src_path)
                         ELSE Ret(g)),
         LAMBDA h : IF Exists(h, src_path) THEN Ret(h)
                    ELSE shutil_copy2(h, bkp_path, src_path))

\* Files.restore_bkp, the body of the loop for one target
restore_bkp_one(fs, bkp_path, src_path, own_parent, fault) ==
    IF ~Exists(fs, bkp_path) THEN Ret(fs)
    ELSE IF fault /\ (IsDir(fs, bkp_path) \/ ~Exists(fs, src_path)
                      \/ IsSymlink(fs, src_path) \/ ~Exists(fs, own_parent))
    THEN Inject(fs)
    ELSE IF IsFile(fs, bkp_path)
    THEN restore_bkp_file(fs, bkp_path, src_path, own_parent)
    ELSE shutil_copytree(fs, bkp_path, src_path, TRUE)

\* Files.restore_bkp, the loop over self.targets from target i on; self_source_dir
\* is the source_dir field of Files, source_dir the argument
RECURSIVE restore_bkp_loop(_, _, _, _, _, _, _)
restore_bkp_loop(fs, targets, self_source_dir, source_dir, bkp_dir, ft, i) ==
    IF i > Len(targets) THEN Ret(fs)
    ELSE Then(restore_bkp_one(fs, bkp_dir \o targets[i], source_dir \o targets[i],
                              Parent(self_source_dir \o targets[i]), ft = i),
              LAMBDA g : restore_bkp_loop(g, targets, self_source_dir, source_dir,
                                          bkp_dir, ft, i + 1))

\* Files.restore_bkp with the loop off by one: the first target is not restored
restore_bkp_from_second(fs, targets, self_source_dir, source_dir, bkp_dir, ft) ==
    IF ~Exists(fs, bkp_dir) THEN Raise(fs)
    ELSE restore_bkp_loop(fs, targets, self_source_dir, source_dir, bkp_dir, ft, 2)

\* Files.restore_bkp(source_dir, bkp_dir): the assert, then the loop
restore_bkp(fs, targets, self_source_dir, source_dir, bkp_dir, ft) ==
    IF ~Exists(fs, bkp_dir) THEN Raise(fs)
    ELSE restore_bkp_loop(fs, targets, self_source_dir, source_dir, bkp_dir, ft, 1)

\* Files.delete_dir without the rmtree: the directory is left where it is
delete_dir_skipped(fs, dir_, ft) ==
    IF ~LExists(fs, dir_) THEN Ret(fs)
    ELSE IF ft = 1 THEN Inject(fs)
    ELSE Ret(fs)

\* Files.delete_dir(dir_): a missing directory is passed over, any other failure
\* of rmtree is raised as BackupNotDeleted; ft = 1 is an injected failure
delete_dir(fs, dir_, ft) ==
    IF ~LExists(fs, dir_) THEN Ret(fs)
    ELSE IF ft = 1 THEN Inject(fs)
    ELSE shutil_rmtree(fs, dir_)

(***************************************************************************)
(* services.py: Links.                                                     *)
(***************************************************************************)
\* Links.create(is_relative=False), from target i on
RECURSIVE Links_create_loop(_, _, _, _, _, _)
Links_create_loop(fs, targets, source_dir, target_dir, ft, i) ==
    IF i > Len(targets) THEN Ret(fs)
    ELSE Then(IF ft = i THEN Inject(fs)
              ELSE os_symlink(fs, target_dir \o targets[i], source_dir \o targets[i]),
              LAMBDA g : Links_create_loop(g, targets, source_dir, target_dir, ft, i + 1))

\* Links.create with the loop off by one: the first target gets no link
Links_create_from_second(fs, targets, source_dir, target_dir, ft) ==
    Links_create_loop(fs, targets, source_dir, target_dir, ft, 2)

Links_create(fs, targets, source_dir, target_dir, ft) ==
    Links_create_loop(fs, targets, source_dir, target_dir, ft, 1)

\* Links.remove without the is_symlink test: whatever is at the path is unlinked
Links_remove_one_any(fs, src_path, fault) ==
    IF Exists(fs, src_path)
    THEN IF fault THEN Inject(fs) ELSE os_unlink(fs, src_path)
    ELSE Ret(fs)

\* Links.remove(), the body of the loop for one target
Links_remove_one(fs, src_path, fault) ==
    IF Exists(fs, src_path) /\ IsSymlink(fs, src_path)
    THEN IF fault THEN Inject(fs) ELSE os_unlink(fs, src_path)
    ELSE Ret(fs)

\* Links.remove(), from target i on
RECURSIVE Links_remove_loop(_, _, _, _, _)
Links_remove_loop(fs, targets, source_dir, ft, i) ==
    IF i > Len(targets) THEN Ret(fs)
    ELSE Then(Links_remove_one(fs, source_dir \o targets[i], ft = i),
              LAMBDA g : Links_remove_loop(g, targets, source_dir, ft, i + 1))

Links_remove(fs, targets, source_dir, ft) ==
    Links_remove_loop(fs, targets, source_dir, ft, 1)

\* Links.back_create with the back-link put beside the storage directory, in
\* config.confguard_path, and not inside it
back_create_beside(fs, source_dir, target_dir, sentinel, ft) ==
    IF ft = 1 THEN Inject(fs)
    ELSE os_symlink(fs, source_dir, Append(Parent(target_dir), BackLinkName(sentinel)))

\* Links.back_create(is_relative=False); sentinel is config.sentinel at the call
back_create(fs, source_dir, target_dir, sentinel, ft) ==
    IF ft = 1 THEN Inject(fs)
    ELSE os_symlink(fs, source_dir, Append(target_dir, BackLinkName(sentinel)))

\* Links.back_remove with unlink(missing_ok=False): a missing back-link raises
back_remove_strict(fs, target_dir, sentinel, ft) ==
    IF ~LExists(fs, Append(target_dir, BackLinkName(sentinel))) THEN Raise(fs)
    ELSE IF ft = 1 THEN Inject(fs)
    ELSE os_unlink(fs, Append(target_dir, BackLinkName(sentinel)))

\* Links.back_remove(): unlink(missing_ok=True)
back_remove(fs, target_dir, sentinel, ft) ==
    IF ~LExists(fs, Append(target_dir, BackLinkName(sentinel))) THEN Ret(fs)
    ELSE IF ft = 1 THEN Inject(fs)
    ELSE os_unlink(fs, Append(target_dir, BackLinkName(sentinel)))

(***************************************************************************)
(* services.py: Sentinel, over the global `config` of environment.py.      *)
(* mem is config.sentinel (read from the document in memory), disk the     *)
(* sentinel of the .confguard file of the project.                         *)
(***************************************************************************)
\* Sentinel.remove without the _save_confguard: the file keeps the sentinel
Sentinel_remove_unsaved(mem, disk, ft) ==
    IF mem = None THEN [mem |-> mem, disk |-> disk, ok |-> FALSE, inj |-> FALSE]
    ELSE IF ft = 1 THEN [mem |-> None, disk |-> disk, ok |-> FALSE, inj |-> TRUE]
    ELSE [mem |-> None, disk |-> disk, ok |-> TRUE, inj |-> FALSE]

\* Sentinel.remove -> confguard_remove_sentinel: the two del raise KeyError when
\* there is no sentinel; ft = 1 fails the open of _save_confguard
Sentinel_remove(mem, disk, ft) ==
    IF mem = None THEN [mem |-> mem, disk |-> disk, ok |-> FALSE, inj |-> FALSE]
    ELSE IF ft = 1 THEN [mem |-> None, disk |-> disk, ok |-> FALSE, inj |-> TRUE]
    ELSE [mem |-> None, disk |-> None, ok |-> TRUE, inj |-> FALSE]

\* confguard_add_sentinel(sentinel): the table is set in the document and the
\* document is saved
confguard_add_sentinel(mem, disk, sentinel) ==
    [mem |-> sentinel, disk |-> sentinel, ok |-> TRUE, inj |-> FALSE]

\* confguard_update_sentinel without the _save_confguard: the file keeps the
\* sentinel it had
confguard_update_sentinel_unsaved(mem, disk, sentinel) ==
    IF mem = None THEN [mem |-> mem, disk |-> disk, ok |-> FALSE, inj |-> FALSE]
    ELSE [mem |-> sentinel, disk |-> disk, ok |-> TRUE, inj |-> FALSE]

\* confguard_update_sentinel(sentinel): the item assignment raises KeyError
\* when the document has no _internal_ table
confguard_update_sentinel(mem, disk, sentinel) ==
    IF mem = None THEN [mem |-> mem, disk |-> disk, ok |-> FALSE, inj |-> FALSE]
    ELSE [mem |-> sentinel, disk |-> sentinel, ok |-> TRUE, inj |-> FALSE]

\* Sentinel.load_confguard: the document is read from the file
load_confguard(mem, disk) == [mem |-> disk, disk |-> disk]

\* Sentinel.create -> confguard_add_sentinel with the drawn identifier k
Sentinel_create(mem, disk, k) ==
    IF mem # None THEN [mem |-> mem, disk |-> disk]
    ELSE [mem |-> k, disk |-> k]

(***************************************************************************)
(* services.py: _create_relative_path.  A path argument is a record: abs   *)
(* tells whether it is absolute, parts are its segments after the root.    *)
(***************************************************************************)
\* the longest path argument
MaxPathLen == 3

\* Path(p).parent and Path(p).name
PathParent(p) == [abs |-> p.abs, parts |-> SubSeq(p.parts, 1, Len(p.parts) - 1)]
PathName(p) == p.parts[Len(p.parts)]

\* posixpath.commonprefix of two segment lists: the length of the longest
\* common leading sequence
RECURSIVE commonprefix(_, _, _)
commonprefix(a, b, i) ==
    IF i < Len(a) /\ i < Len(b) /\ a[i + 1] = b[i + 1] THEN commonprefix(a, b, i + 1)
    ELSE i

\* n times ".."
Pardirs(n) == [j \in 1..n |-> ".."]

\* os.path.relpath(path, start) of two absolute paths, as segments; the empty
\* list is os.curdir
os_path_relpath(path, start) ==
    Pardirs(Len(start) - commonprefix(start, path, 0))
    \o SubSeq(path, commonprefix(start, path, 0) + 1, Len(path))

\* no call of _create_relative_path has been made
NoCall == [source |-> <<>>, target |-> <<>>, ok |-> TRUE, ret |-> <<>>]

\* _create_relative_path(source, target): ValueError unless the parents of both
\* are absolute, else Path(rel_path) / name with name = Path(source).name
create_relative_path(source, target) ==
    IF ~(PathParent(source).abs /\ PathParent(target).abs)
    THEN [source |-> source, target |-> target, ok |-> FALSE, ret |-> <<>>]
    ELSE [source |-> source, target |-> target, ok |-> TRUE,
          ret |-> Append(os_path_relpath(PathParent(target).parts,
                                         PathParent(source).parts),
                         PathName(source))]

(***************************************************************************)
(* The state.                                                              *)
(***************************************************************************)
VARIABLES
    fs,          \* the file system
    mem,         \* config.sentinel, the sentinel in memory
    disk,        \* the sentinel persisted in source_dir/.confguard
    targets,     \* [config] targets of source_dir/.confguard
    valid,       \* source_dir/.confguard has a [config] section with targets
    pc,          \* the statement of _guard / _unguard about to run, or "idle"
    bkp_dir,     \* local of _guard / _unguard
    target_dir,  \* local of _guard / _unguard
    exc,         \* the exception in flight when the finally clause runs
    result,      \* how the last invocation ended
    op,          \* the last invocation started: "guard" or "unguard"
    nops,        \* invocations started and edits made
    nfaults,     \* faults injected in this run
    faults,      \* the statements of this invocation whose call raised
    injected,    \* those of them that were made to raise by injection
    fs0,         \* the file system when this invocation started
    disk0,       \* the persisted sentinel when this invocation started
    prev,        \* the invocation before this one: what it was, how it ended
    orig,        \* the file system and the targets when the run started
    rel,         \* the last call of _create_relative_path: arguments, result
    given        \* the sentinel value the last call of Sentinel was given

vars == <<fs, mem, disk, targets, valid, pc, bkp_dir, target_dir, exc, result, op, nops,
          nfaults, faults, injected, fs0, disk0, prev, orig, rel,
          given>>
locals == <<bkp_dir, target_dir>>
conf == <<targets, valid>>
ghost == <<op, nops, fs0, disk0, prev, orig, rel, given>>

\* the content ids of the files of the project
C_envrc == "envrc"
C_run == "run"
C_xxx == "xxx"

\* a project directory: which of .envrc, .run (with its file), xxx and
\* xxx/xxx.txt exist, all as regular files and directories
Project(hasF, hasD, hasX, hasT) ==
    LET base == (SourceDir :> DirN) @@ (ConfguardPath :> DirN)
        f == IF hasF THEN (SourceDir \o T_envrc) :> FileN(C_envrc) ELSE <<>>
        d == IF hasD THEN ((SourceDir \o T_run) :> DirN)
                          @@ (Append(SourceDir \o T_run, "a") :> FileN(C_run))
             ELSE <<>>
        x == IF hasX THEN Append(SourceDir, "x") :> DirN ELSE <<>>
        t == IF hasT THEN (SourceDir \o T_xxx) :> FileN(C_xxx) ELSE <<>>
    IN  base @@ f @@ d @@ x @@ t

\* the target lists a .confguard file of the model may configure
TargetLists == {<<T_envrc, T_run, T_xxx>>, <<T_run, T_envrc>>}

Init ==
    /\ \E hasF, hasD, hasX, hasT \in BOOLEAN :
          /\ hasT => hasX
          /\ fs = Project(hasF, hasD, hasX, hasT)
    /\ targets \in TargetLists
    /\ valid \in BOOLEAN
    /\ mem = None
    /\ disk = None
    /\ pc = "idle"
    /\ bkp_dir = <<>>
    /\ target_dir = <<>>
    /\ exc = "none"
    /\ result = "none"
    /\ op = "none"
    /\ nops = 0
    /\ nfaults = 0
    /\ faults = {}
    /\ injected = {}
    /\ fs0 = fs
    /\ disk0 = None
    /\ prev = [op |-> "none", result |-> "none", faults |-> {}, fs0 |-> fs]
    /\ orig = [fs |-> fs, targets |-> targets]
    /\ rel = NoCall
    /\ given = None

\* the faults the next call may be given: none, or one of its n fault points
FaultChoices(n) == IF nfaults < MaxFaults THEN 0..n ELSE {0}

\* a call of a service with fault choice ft that ended as r: a chosen fault
\* must be the one that was raised; a call that raised, by injection or by
\* itself, is recorded
Called(r, ft) ==
    /\ ft # 0 => r.inj
    /\ nfaults' = IF r.inj THEN nfaults + 1 ELSE nfaults
    /\ faults' = IF r.ok THEN faults ELSE faults \cup {pc}
    /\ injected' = IF r.inj THEN injected \cup {pc} ELSE injected

\* an invocation starts: _load_confguard_config reads the file into config
Begin(name) ==
    /\ pc = "idle"
    /\ nops < MaxOps
    /\ op' = name
    /\ nops' = nops + 1
    /\ fs0' = fs
    /\ disk0' = disk
    /\ prev' = [op |-> op, result |-> result, faults |-> faults, fs0 |-> fs0]
    /\ orig' = orig
    /\ rel' = rel
    /\ given' = given
    /\ faults' = {}
    /\ injected' = {}
    /\ exc' = "none"

\* an invocation returns to the caller
Return(how) ==
    /\ pc' = "idle"
    /\ result' = how

Outcome(e) == IF e = "none" THEN "success" ELSE IF e = "exit" THEN "exit1" ELSE "error"

\* a call of a file service that ended as r moves on: to ok_pc, or to fail_pc
\* with fail_exc in flight
Step(r, ft, ok_pc, ok_exc, fail_pc, fail_exc) ==
    /\ Called(r, ft)
    /\ fs' = r.fs
    /\ pc' = IF r.ok THEN ok_pc ELSE fail_pc
    /\ exc' = IF r.ok THEN ok_exc ELSE fail_exc
    /\ result' = result

\* a call of a file service that ended as r, whose exception leaves the function
StepOrLeave(r, ft, ok_pc) ==
    /\ Called(r, ft)
    /\ fs' = r.fs
    /\ pc' = IF r.ok THEN ok_pc ELSE "idle"
    /\ result' = IF r.ok THEN result ELSE "error"
    /\ exc' = exc

\* the call of the finally clause: the function returns
StepReturn(r, ft) ==
    /\ Called(r, ft)
    /\ fs' = r.fs
    /\ Return(IF r.ok THEN Outcome(exc) ELSE "error")
    /\ exc' = exc

\* a call of Sentinel.remove that ended as r
StepSentinel(r, ft) ==
    /\ Called(r, ft)
    /\ mem' = r.mem
    /\ disk' = r.disk

(***************************************************************************)
(* main.py: _guard, one action per statement.                              *)
(***************************************************************************)
\* lines 47-48, _load_confguard_config lines 20-27: no [config] section or no
\* targets in it
guard_invalid_config ==
    /\ Begin("guard")
    /\ ~valid
    /\ mem' = disk
    /\ Return("exit1")
    /\ UNCHANGED <<fs, disk, conf, locals, nfaults>>

\* lines 47-55: the project is already guarded
guard_already ==
    /\ Begin("guard")
    /\ valid
    /\ disk # None
    /\ mem' = disk
    /\ Return("exit1")
    /\ UNCHANGED <<fs, disk, conf, locals, nfaults>>

\* _guard without the check of lines 50-55: a guarded project is guarded again
guard_begin_unchecked ==
    /\ Begin("guard")
    /\ valid
    /\ \E k \in Ids :
          /\ ~LExists(fs, Append(ConfguardPath, SentinelName(k)))
          /\ mem' = k
          /\ disk' = k
          /\ target_dir' = Append(ConfguardPath, SentinelName(k))
    /\ bkp_dir' = Append(SourceDir, CONFGUARD_BKP_DIR)
    /\ pc' = "g_create_bkp"
    /\ UNCHANGED <<fs, conf, result, nfaults>>

\* lines 47-65: sentinel.create() draws an identifier no storage directory has
guard_begin ==
    /\ Begin("guard")
    /\ valid
    /\ disk = None
    /\ \E k \in Ids :
          /\ ~LExists(fs, Append(ConfguardPath, SentinelName(k)))
          /\ mem' = Sentinel_create(None, disk, k).mem
          /\ disk' = Sentinel_create(None, disk, k).disk
          /\ target_dir' = Append(ConfguardPath, SentinelName(k))
    /\ bkp_dir' = Append(SourceDir, CONFGUARD_BKP_DIR)
    /\ pc' = "g_create_bkp"
    /\ UNCHANGED <<fs, conf, result, nfaults>>

\* lines 66-67 without the handler of lines 68-72: a failed backup is passed
\* over and the move goes on
guard_create_bkp_unhandled ==
    /\ pc = "g_create_bkp"
    /\ \E ft \in FaultChoices(Len(targets) + 1) :
          Step(create_bkp(fs, targets, SourceDir, bkp_dir, ft), ft,
               "g_move_files", exc, "g_move_files", exc)
    /\ UNCHANGED <<mem, disk, conf, locals, ghost>>

\* lines 66-67
guard_create_bkp ==
    /\ pc = "g_create_bkp"
    /\ \E ft \in FaultChoices(Len(targets) + 1) :
          Step(create_bkp(fs, targets, SourceDir, bkp_dir, ft), ft,
               "g_move_files", exc, "g_abort_delete_dir", exc)
    /\ UNCHANGED <<mem, disk, conf, locals, ghost>>

\* lines 68-70: BackupNotDeleted leaves _guard from inside the handler
guard_abort_delete_dir ==
    /\ pc = "g_abort_delete_dir"
    /\ \E ft \in FaultChoices(1) :
          StepOrLeave(delete_dir(fs, bkp_dir, ft), ft, "g_abort_sentinel")
    /\ UNCHANGED <<mem, disk, conf, locals, ghost>>

\* lines 71-72
guard_abort_sentinel ==
    /\ pc = "g_abort_sentinel"
    /\ \E ft \in FaultChoices(1) :
          /\ StepSentinel(Sentinel_remove(mem, disk, ft), ft)
          /\ Return(IF Sentinel_remove(mem, disk, ft).ok THEN "exit1" ELSE "error")
    /\ UNCHANGED <<fs, conf, locals, exc, ghost>>

\* line 76
guard_move_files ==
    /\ pc = "g_move_files"
    /\ \E ft \in FaultChoices(Len(targets)) :
          Step(move_files(fs, targets, SourceDir, target_dir, ft), ft,
               "g_create", exc, "g_rb_remove", exc)
    /\ UNCHANGED <<mem, disk, conf, locals, ghost>>

\* line 77
guard_create ==
    /\ pc = "g_create"
    /\ \E ft \in FaultChoices(Len(targets)) :
          Step(Links_create(fs, targets, SourceDir, target_dir, ft), ft,
               "g_back_create", exc, "g_rb_remove", exc)
    /\ UNCHANGED <<mem, disk, conf, locals, ghost>>

\* line 78; falling out of the try block enters the finally clause
guard_back_create ==
    /\ pc = "g_back_create"
    /\ \E ft \in FaultChoices(1) :
          Step(back_create(fs, SourceDir, target_dir, mem, ft), ft,
               "g_finally", exc, "g_rb_remove", exc)
    /\ UNCHANGED <<mem, disk, conf, locals, ghost>>

\* lines 79-81: an exception of the handler itself goes to the finally clause
guard_rb_remove ==
    /\ pc = "g_rb_remove"
    /\ \E ft \in FaultChoices(Len(targets)) :
          Step(Links_remove(fs, targets, SourceDir, ft), ft,
               "g_rb_back_remove", exc, "g_finally", "error")
    /\ UNCHANGED <<mem, disk, conf, locals, ghost>>

\* line 82
guard_rb_back_remove ==
    /\ pc = "g_rb_back_remove"
    /\ \E ft \in FaultChoices(1) :
          Step(back_remove(fs, target_dir, mem, ft), ft,
               "g_rb_restore", exc, "g_finally", "error")
    /\ UNCHANGED <<mem, disk, conf, locals, ghost>>

\* the handler of lines 79-84 without the raise typer.Exit(1) of line 84
guard_rb_restore_swallowed ==
    /\ pc = "g_rb_restore"
    /\ \E ft \in FaultChoices(Len(targets)) :
          Step(restore_bkp(fs, targets, SourceDir, SourceDir, bkp_dir, ft), ft,
               "g_finally", exc, "g_finally", "error")
    /\ UNCHANGED <<mem, disk, conf, locals, ghost>>

\* lines 83-84: restore, then raise typer.Exit(1)
guard_rb_restore ==
    /\ pc = "g_rb_restore"
    /\ \E ft \in FaultChoices(Len(targets)) :
          Step(restore_bkp(fs, targets, SourceDir, SourceDir, bkp_dir, ft), ft,
               "g_finally", "exit", "g_finally", "error")
    /\ UNCHANGED <<mem, disk, conf, locals, ghost>>

\* lines 85-86: BackupNotDeleted replaces the exception in flight
guard_finally ==
    /\ pc = "g_finally"
    /\ \E ft \in FaultChoices(1) :
          StepReturn(delete_dir(fs, bkp_dir, ft), ft)
    /\ UNCHANGED <<mem, disk, conf, locals, ghost>>

(***************************************************************************)
(* main.py: _unguard, one action per statement.                            *)
(***************************************************************************)
\* lines 104-105, _load_confguard_config lines 20-27
unguard_invalid_config ==
    /\ Begin("unguard")
    /\ ~valid
    /\ mem' = disk
    /\ Return("exit1")
    /\ UNCHANGED <<fs, disk, conf, locals, nfaults>>

\* lines 104-112: the project is not guarded
unguard_not_guarded ==
    /\ Begin("unguard")
    /\ valid
    /\ disk = None
    /\ mem' = disk
    /\ Return("exit1")
    /\ UNCHANGED <<fs, disk, conf, locals, nfaults>>

\* _unguard without the check of lines 107-112
unguard_begin_unchecked ==
    /\ Begin("unguard")
    /\ valid
    /\ mem' = disk
    /\ target_dir' = Append(ConfguardPath, SentinelName(disk))
    /\ bkp_dir' = Append(Append(ConfguardPath, SentinelName(disk)), CONFGUARD_BKP_DIR)
    /\ pc' = "u_create_bkp"
    /\ UNCHANGED <<fs, disk, conf, result, nfaults>>

\* lines 104-122
unguard_begin ==
    /\ Begin("unguard")
    /\ valid
    /\ disk # None
    /\ mem' = disk
    /\ target_dir' = Append(ConfguardPath, SentinelName(disk))
    /\ bkp_dir' = Append(Append(ConfguardPath, SentinelName(disk)), CONFGUARD_BKP_DIR)
    /\ pc' = "u_create_bkp"
    /\ UNCHANGED <<fs, disk, conf, result, nfaults>>

\* lines 123-124
unguard_create_bkp ==
    /\ pc = "u_create_bkp"
    /\ \E ft \in FaultChoices(Len(targets) + 1) :
          Step(create_bkp(fs, targets, target_dir, bkp_dir, ft), ft,
               "u_remove", exc, "u_abort_delete_dir", exc)
    /\ UNCHANGED <<mem, disk, conf, locals, ghost>>

\* lines 125-127
unguard_abort_delete_dir ==
    /\ pc = "u_abort_delete_dir"
    /\ \E ft \in FaultChoices(1) :
          StepOrLeave(delete_dir(fs, bkp_dir, ft), ft, "u_abort_sentinel")
    /\ UNCHANGED <<mem, disk, conf, locals, ghost>>

\* lines 128-129
unguard_abort_sentinel ==
    /\ pc = "u_abort_sentinel"
    /\ \E ft \in FaultChoices(1) :
          /\ StepSentinel(Sentinel_remove(mem, disk, ft), ft)
          /\ Return(IF Sentinel_remove(mem, disk, ft).ok THEN "exit1" ELSE "error")
    /\ UNCHANGED <<fs, conf, locals, exc, ghost>>

\* line 133
unguard_remove ==
    /\ pc = "u_remove"
    /\ \E ft \in FaultChoices(Len(targets)) :
          Step(Links_remove(fs, targets, SourceDir, ft), ft,
               "u_back_remove", exc, "u_rb_restore", exc)
    /\ UNCHANGED <<mem, disk, conf, locals, ghost>>

\* line 134
unguard_back_remove ==
    /\ pc = "u_back_remove"
    /\ \E ft \in FaultChoices(1) :
          Step(back_remove(fs, target_dir, mem, ft), ft,
               "u_return_files", exc, "u_rb_restore", exc)
    /\ UNCHANGED <<mem, disk, conf, locals, ghost>>

\* line 135
unguard_return_files ==
    /\ pc = "u_return_files"
    /\ \E ft \in FaultChoices(Len(targets) + 1) :
          Step(return_files(fs, targets, SourceDir, target_dir, ft), ft,
               "u_sentinel_remove", exc, "u_rb_restore", exc)
    /\ UNCHANGED <<mem, disk, conf, locals, ghost>>

\* line 136; falling out of the try block enters the finally clause
unguard_sentinel_remove ==
    /\ pc = "u_sentinel_remove"
    /\ \E ft \in FaultChoices(1) :
          /\ StepSentinel(Sentinel_remove(mem, disk, ft), ft)
          /\ pc' = IF Sentinel_remove(mem, disk, ft).ok THEN "u_finally" ELSE "u_rb_restore"
    /\ UNCHANGED <<fs, conf, locals, exc, result, ghost>>

\* lines 137-139
unguard_rb_restore ==
    /\ pc = "u_rb_restore"
    /\ \E ft \in FaultChoices(Len(targets)) :
          Step(restore_bkp(fs, targets, SourceDir, target_dir, bkp_dir, ft), ft,
               "u_rb_create", exc, "u_finally", "error")
    /\ UNCHANGED <<mem, disk, conf, locals, ghost>>

\* lines 140-141
unguard_rb_create ==
    /\ pc = "u_rb_create"
    /\ \E ft \in FaultChoices(Len(targets)) :
          Step(Links_create(fs, targets, SourceDir, target_dir, ft), ft,
               "u_rb_back_create", exc, "u_finally", "error")
    /\ UNCHANGED <<mem, disk, conf, locals, ghost>>

\* lines 142-143: the back-link, then raise typer.Exit(1)
unguard_rb_back_create ==
    /\ pc = "u_rb_back_create"
    /\ \E ft \in FaultChoices(1) :
          Step(back_create(fs, SourceDir, target_dir, mem, ft), ft,
               "u_finally", "exit", "u_finally", "error")
    /\ UNCHANGED <<mem, disk, conf, locals, ghost>>

\* lines 144-145
unguard_finally ==
    /\ pc = "u_finally"
    /\ \E ft \in FaultChoices(1) :
          StepReturn(delete_dir(fs, bkp_dir, ft), ft)
    /\ UNCHANGED <<mem, disk, conf, locals, ghost>>

(***************************************************************************)
(* The user, between two invocations.                                      *)
(***************************************************************************)
\* the targets of .confguard are edited after a guard that succeeded:
\* _load_confguard_config reads them anew at every invocation
config_edited ==
    /\ pc = "idle"
    /\ valid
    /\ op = "guard"
    /\ result = "success"
    /\ nops < MaxOps
    /\ nops' = nops + 1
    /\ targets' \in TargetLists \ {targets}
    /\ op' = "edit"
    /\ UNCHANGED <<fs, mem, disk, valid, pc, locals, exc, result, nfaults,
                   faults, injected, fs0, disk0, prev, orig, rel, given>>

Next ==
    \/ config_edited
    \/ guard_invalid_config
    \/ unguard_invalid_config
    \/ guard_already
    \/ guard_begin
    \/ guard_create_bkp
    \/ guard_abort_delete_dir
    \/ guard_abort_sentinel
    \/ guard_move_files
    \/ guard_create
    \/ guard_back_create
    \/ guard_rb_remove
    \/ guard_rb_back_remove
    \/ guard_rb_restore
    \/ guard_finally
    \/ unguard_not_guarded
    \/ unguard_begin
    \/ unguard_create_bkp
    \/ unguard_abort_delete_dir
    \/ unguard_abort_sentinel
    \/ unguard_remove
    \/ unguard_back_remove
    \/ unguard_return_files
    \/ unguard_sentinel_remove
    \/ unguard_rb_restore
    \/ unguard_rb_create
    \/ unguard_rb_back_create
    \/ unguard_finally

Spec == Init /\ [][Next]_vars

TypeOK ==
    /\ pc \in {"idle", "g_create_bkp", "g_abort_delete_dir", "g_abort_sentinel",
               "g_move_files", "g_create", "g_back_create", "g_rb_remove",
               "g_rb_back_remove", "g_rb_restore", "g_finally", "u_create_bkp",
               "u_abort_delete_dir", "u_abort_sentinel", "u_remove", "u_back_remove",
               "u_return_files", "u_sentinel_remove", "u_rb_restore", "u_rb_create",
               "u_rb_back_create", "u_finally"}
    /\ mem \in Ids \cup {None}
    /\ disk \in Ids \cup {None}
    /\ result \in {"none", "success", "exit1", "error"}
    /\ exc \in {"none", "exit", "error"}
    /\ nops \in 0..MaxOps
    /\ nfaults \in 0..MaxFaults
    /\ valid \in BOOLEAN
    /\ targets \in TargetLists
    /\ \A p \in DOMAIN fs : Len(p) > 1 => Parent(p) \in DOMAIN fs /\ fs[Parent(p)].kind = "dir"

(***************************************************************************)
(* Properties.                                                             *)
(***************************************************************************)
\* the configured targets, their paths in the project and in the storage
Targets == {targets[i] : i \in DOMAIN targets}
Src(t) == SourceDir \o t
StorageDir(k) == Append(ConfguardPath, SentinelName(k))
Stored(k, t) == StorageDir(k) \o t

\* the tree at p: its nodes, by their path relative to p
Tree(f, p) == {<<SubSeq(q, Len(p) + 1, Len(q)), f[q]>> : q \in Under(f, p)}

\* p is a regular file or a directory, not a symlink
Regular(f, p) == KindAt(f, p) \in {"file", "dir"}

\* the invocation of name has returned
Finished(name) == pc = "idle" /\ op = name

\* a guard without fault that succeeded, then an unguard without fault that
\* succeeded
RoundTrip ==
    /\ Finished("unguard") /\ result = "success" /\ faults = {}
    /\ prev.op = "guard" /\ prev.result = "success" /\ prev.faults = {}

\* C1: after a fault-free guard and a fault-free unguard, every target that
\* existed before the guard is back at its path with its type and content, no
\* target path is a symlink, the persisted sentinel is None and the storage
\* directory of the sentinel is gone.
C1_RoundTrip ==
    RoundTrip =>
        /\ \A t \in Targets :
              KindAt(prev.fs0, Src(t)) # "none" =>
                  Tree(fs, Src(t)) = Tree(prev.fs0, Src(t))
        /\ \A t \in Targets : KindAt(fs, Src(t)) # "link"
        /\ disk = None
        /\ ~LExists(fs, StorageDir(disk0))

\* C2: when guard has returned success the sentinel is set, and every target
\* that was moved is a symlink in the project that resolves to its path in the
\* storage directory of the sentinel, where a file or directory of the type
\* and content of the original is.
C2_GuardPostcondition ==
    (Finished("guard") /\ result = "success") =>
        /\ mem # None
        /\ disk = mem
        /\ \A t \in Targets :
              Regular(fs0, Src(t)) =>
                  /\ KindAt(fs, Src(t)) = "link"
                  /\ Real(fs, Src(t), MaxLinkDepth) = Stored(disk, t)
                  /\ Regular(fs, Stored(disk, t))
                  /\ Tree(fs, Stored(disk, t)) = Tree(fs0, Src(t))

\* a guard that succeeded on a project with a file and a directory to move
C2_Witness ==
    /\ Finished("guard") /\ result = "success"
    /\ KindAt(fs0, Src(T_envrc)) = "file"
    /\ KindAt(fs0, Src(T_run)) = "dir"
    /\ KindAt(fs, Src(T_run)) = "link"

\* guard has returned after a call raised in the try block of lines 75-78,
\* and no call of the handler or of the finally clause was made to raise
GuardRolledBack ==
    /\ Finished("guard")
    /\ faults \cap {"g_move_files", "g_create", "g_back_create"} # {}
    /\ injected \subseteq {"g_move_files", "g_create", "g_back_create"}

\* C3: when guard has returned after a fault during move_files, forward-link
\* creation or back-link creation, every original target is in the project
\* as a regular file or directory, not a symlink, with its original content.
C3_GuardRollbackRestoresFiles ==
    GuardRolledBack =>
        \A t \in Targets :
            Regular(fs0, Src(t)) =>
                /\ Regular(fs, Src(t))
                /\ Tree(fs, Src(t)) = Tree(fs0, Src(t))

\* a guard rolled back from the back-link, after every target was moved and
\* linked
C3_Witness ==
    /\ GuardRolledBack
    /\ faults = {"g_back_create"}
    /\ KindAt(fs0, Src(T_envrc)) = "file"
    /\ KindAt(fs0, Src(T_run)) = "dir"
    /\ KindAt(fs, Src(T_run)) = "dir"

\* C4: when guard has returned after a fault during move, forward-link
\* creation or back-link creation, the sentinel is None in memory and in the
\* persisted config file.
C4_GuardRollbackClearsSentinel ==
    GuardRolledBack => mem = None /\ disk = None

\* unguard has returned after create_bkp raised, and no call of the handler
\* was made to raise
UnguardBackupFailed ==
    /\ Finished("unguard")
    /\ "u_create_bkp" \in faults
    /\ injected \subseteq {"u_create_bkp"}

\* C5: when unguard has returned after createBackup failed, the partial
\* backup directory is deleted, the sentinel has its previous value in memory
\* and on disk, and no link or stored file has been changed.
C5_UnguardBackupFailureKeepsGuarded ==
    UnguardBackupFailed =>
        /\ ~LExists(fs, bkp_dir)
        /\ mem = disk0
        /\ disk = disk0
        /\ fs = Drop(fs0, Under(fs0, bkp_dir))

\* unguard has returned after a call raised in the try block of lines
\* 132-136, and no call of the handler or of the finally clause was made to
\* raise
UnguardRolledBack ==
    /\ Finished("unguard")
    /\ faults \cap {"u_remove", "u_back_remove", "u_return_files",
                    "u_sentinel_remove"} # {}
    /\ injected \subseteq {"u_remove", "u_back_remove", "u_return_files",
                           "u_sentinel_remove"}

\* C6: when unguard has returned after a fault during forward-link removal,
\* back-link removal, move-back or sentinel clearing, the guarded state is
\* restored: the sentinel is set, every stored target is in the storage
\* directory, and its path in the project is a symlink resolving to it.
C6_UnguardAllOrNothing ==
    UnguardRolledBack =>
        /\ mem = disk0
        /\ disk = disk0
        /\ \A t \in Targets :
              Regular(fs0, Stored(disk0, t)) =>
                  /\ Tree(fs, Stored(disk0, t)) = Tree(fs0, Stored(disk0, t))
                  /\ KindAt(fs, Src(t)) = "link"
                  /\ Real(fs, Src(t), MaxLinkDepth) = Stored(disk0, t)

\* C7: guard on a project whose persisted sentinel is not None fails with
\* exit 1 and changes nothing: the file system and the sentinel are as they
\* were.
C7_DoubleGuardRejection ==
    (Finished("guard") /\ disk0 # None) =>
        /\ result = "exit1"
        /\ fs = fs0
        /\ disk = disk0
        /\ mem = disk0

\* a guard on a project that a guard before it had guarded
C7_Witness ==
    /\ Finished("guard") /\ disk0 # None
    /\ prev.op = "guard" /\ prev.result = "success"
    /\ KindAt(fs, Src(T_run)) = "link"

\* C8: unguard on a project whose sentinel is None fails with exit 1 at once
\* and mutates nothing: the file system and the config are as they were.
C8_UnguardPrecondition ==
    (Finished("unguard") /\ disk0 = None) =>
        /\ result = "exit1"
        /\ faults = {}
        /\ fs = fs0
        /\ disk = None
        /\ mem = None

\* an unguard on a project that was never guarded
C8_Witness ==
    /\ Finished("unguard") /\ disk0 = None
    /\ nops = 1
    /\ KindAt(fs, Src(T_run)) = "dir"

\* guard has returned after create_bkp raised, and no call of the handler was
\* made to raise
GuardBackupFailed ==
    /\ Finished("guard")
    /\ "g_create_bkp" \in faults
    /\ injected \subseteq {"g_create_bkp"}

\* C9: when guard has returned after createBackup failed, no target has been
\* moved or linked, no backup directory remains, the persisted sentinel is
\* None, and exit 1 is reported.
C9_GuardBackupFailureAborts ==
    GuardBackupFailed =>
        /\ result = "exit1"
        /\ disk = None
        /\ mem = None
        /\ ~LExists(fs, bkp_dir)
        /\ fs = Drop(fs0, Under(fs0, bkp_dir))

\* a guard whose backup failed at its second target, after the first was
\* copied
C9_Witness ==
    /\ GuardBackupFailed
    /\ injected = {"g_create_bkp"}
    /\ targets = <<T_envrc, T_run, T_xxx>>
    /\ KindAt(fs0, Src(T_envrc)) = "file"
    /\ KindAt(fs0, Src(T_run)) = "dir"

\* C10: a guard of a project in which a configured target does not exist
\* succeeds: the existing targets are moved and linked, and no symlink is
\* created for the missing one.
C10_PartialTargetTolerance ==
    (/\ Finished("guard") /\ valid /\ disk0 = None /\ nfaults = 0
     /\ \E t \in Targets : KindAt(fs0, Src(t)) = "none") =>
        /\ result = "success"
        /\ \A t \in Targets :
              IF KindAt(fs0, Src(t)) = "none"
              THEN KindAt(fs, Src(t)) = "none"
              ELSE /\ KindAt(fs, Src(t)) = "link"
                   /\ Tree(fs, Stored(disk, t)) = Tree(fs0, Src(t))

\* unguard has returned after every call of it returned: the reverse move and
\* the removal of the storage directory were made
UnguardRanThrough ==
    /\ Finished("unguard")
    /\ valid
    /\ disk0 # None
    /\ faults = {}

\* the files of the storage directory that the reverse move leaves there: those
\* under no configured target
Leftover ==
    {q \in Under(fs0, StorageDir(disk0)) :
        /\ fs0[q].kind = "file"
        /\ \A t \in Targets : ~IsPrefix(Stored(disk0, t), q)}

\* C11: when unguard has made the reverse move and a file that was not moved
\* back is in the storage directory, the unguard is reported as failed and the
\* file is still there; with no such file the storage directory is removed.
C11_MoveBackKeepsLeftover ==
    UnguardRanThrough =>
        /\ \A q \in Leftover :
              /\ result # "success"
              /\ q \in DOMAIN fs
              /\ fs[q] = fs0[q]
        /\ Leftover = {} => ~LExists(fs, StorageDir(disk0))

\* target t is one that the guard moved: when the unguard started it was in the
\* storage directory and its path in the project was the symlink to it
GuardMoved(t) ==
    /\ Regular(fs0, Stored(disk0, t))
    /\ KindAt(fs0, Src(t)) = "link"
    /\ fs0[Src(t)].to = Stored(disk0, t)

\* C12: when unguard has run through, every target that the guard moved is
\* back at its path in the project as the file or directory it was in the
\* storage directory, whatever the targets configured at the unguard are.
C12_UnguardDrivenByMovedTargets ==
    UnguardRanThrough =>
        \A t \in AllTargets :
            GuardMoved(t) =>
                /\ Regular(fs, Src(t))
                /\ Tree(fs, Src(t)) = Tree(fs0, Stored(disk0, t))

\* the directory that this invocation backs up: the project for guard, the
\* storage directory for unguard
BackedUp == IF op = "guard" THEN SourceDir ELSE target_dir

\* C13: whenever the restore_bkp of a rollback is about to run, in guard or in
\* unguard, the backup directory exists and holds every entry that the
\* create_bkp of this invocation wrote.
C13_BackupSurvivesUntilRestore ==
    pc \in {"g_rb_restore", "u_rb_restore"} =>
        /\ LExists(fs, bkp_dir)
        /\ Tree(fs, bkp_dir)
             = Tree(create_bkp(fs0, targets, BackedUp, bkp_dir, 0).fs, bkp_dir)

\* guard or unguard has returned after its precondition check let it through,
\* and no call of delete_dir raised
ReturnedBackupDeleted ==
    /\ pc = "idle"
    /\ valid
    /\ \/ op = "guard" /\ disk0 = None
       \/ op = "unguard" /\ disk0 # None
    /\ faults \cap {"g_abort_delete_dir", "g_finally",
                    "u_abort_delete_dir", "u_finally"} = {}

\* C14: when guard or unguard has returned after passing its precondition
\* check, with success, after a backup failure or after a rollback, and the
\* deletion of the backup did not fail, the backup directory of the
\* invocation does not exist.
C14_NoBackupLeftBehind ==
    ReturnedBackupDeleted => ~LExists(fs, bkp_dir)

\* a guard that was rolled back after the links could not all be created, with
\* the backup of a file and a directory deleted at its end
C14_Witness ==
    /\ ReturnedBackupDeleted
    /\ op = "guard"
    /\ faults = {"g_create"}
    /\ KindAt(fs0, Src(T_envrc)) = "file"
    /\ KindAt(fs0, Src(T_run)) = "dir"
    /\ ~LExists(fs, bkp_dir)

\* C15: when guard has returned and back_create was its only call that
\* raised, guard reports success and the project is guarded: the sentinel is
\* set and every original target is a symlink in the project with its content
\* in the storage directory.
C15_BackLinkFailureNotFatal ==
    (Finished("guard") /\ faults = {"g_back_create"}) =>
        /\ result = "success"
        /\ disk # None
        /\ mem = disk
        /\ \A t \in Targets :
              Regular(fs0, Src(t)) =>
                  /\ KindAt(fs, Src(t)) = "link"
                  /\ Tree(fs, Stored(disk, t)) = Tree(fs0, Src(t))

\* the exit code of the command: typer turns Exit(1) into exit code 1, and an
\* exception that leaves the command ends the process with exit code 1 too
ExitCode == IF result = "success" THEN 0 ELSE 1

\* the precondition check of the invocation let it through: the config is
\* valid, and the project is not guarded (guard) or guarded (unguard)
PreconditionPassed ==
    /\ valid
    /\ \/ op = "guard" /\ disk0 = None
       \/ op = "unguard" /\ disk0 # None

\* the calls of the try blocks: the backup, and the steps of the transaction
TransactionSteps ==
    {"g_create_bkp", "g_move_files", "g_create", "g_back_create",
     "u_create_bkp", "u_remove", "u_back_remove", "u_return_files",
     "u_sentinel_remove"}

\* C16, as stated: guard exits 0 exactly when the backup, the move, the
\* forward links and the back-link all succeeded, and 1 otherwise; unguard
\* likewise for its backup, link removals, move-back and sentinel clearing.
C16_CliOutcomeAsStated ==
    (pc = "idle" /\ op \in {"guard", "unguard"}) =>
        (ExitCode = 0 <=> (PreconditionPassed /\ faults \cap TransactionSteps = {}))

\* C16, amended: guard and unguard exit 0 exactly when the precondition check
\* passed and no call of the invocation raised, the deletion of the backup in
\* the finally clause included; every other end (already guarded or not
\* guarded, invalid config, failure of the backup, of a step or of the backup
\* deletion) exits 1.
C16_CliOutcome ==
    (pc = "idle" /\ op \in {"guard", "unguard"}) =>
        /\ ExitCode = 0 <=> (PreconditionPassed /\ faults = {})
        /\ ExitCode \in {0, 1}

\* a guard rolled back after a failed move: exit code 1
C16_Witness ==
    /\ Finished("guard")
    /\ PreconditionPassed
    /\ faults = {"g_move_files"}
    /\ ExitCode = 1
    /\ KindAt(fs0, Src(T_envrc)) = "file"

\* guard or unguard has returned in one of the three ways of an attempt: with
\* every call returning, after a failed backup, or after a rollback
AttemptEnded ==
    \/ pc = "idle" /\ op \in {"guard", "unguard"} /\ PreconditionPassed /\ faults = {}
    \/ GuardBackupFailed
    \/ UnguardBackupFailed
    \/ GuardRolledBack
    \/ UnguardRolledBack

\* C17: at the end of every guard or unguard attempt, successful, aborted in
\* the backup phase or rolled back, the sentinel of the config file on disk
\* is the sentinel in memory.
C17_StateRePersisted ==
    AttemptEnded => disk = mem

\* a call of F on file system g returns and changes nothing
Unchanging(g, F(_)) == F(g) = Ret(g)

\* a first call of F ended as r: if it returned, a second call at once
\* returns too and leaves the file system as the first call left it
Again(r, F(_)) == r.ok => Unchanging(r.fs, F)

\* the removal F called twice in a row on file system f
Idempotent(f, F(_)) == Again(F(f), F)

\* C18: in every state in which guard or unguard is about to call
\* Links.remove, Links.back_remove or Files.delete_dir, that removal called
\* twice in a row with no fault raises nothing and changes nothing the second
\* time.
C18_IdempotentRemoval ==
    /\ pc \in {"g_rb_remove", "u_remove"} =>
          Idempotent(fs, LAMBDA f : Links_remove(f, targets, SourceDir, 0))
    /\ pc \in {"g_rb_back_remove", "u_back_remove"} =>
          Idempotent(fs, LAMBDA f : back_remove(f, target_dir, mem, 0))
    /\ pc \in {"g_abort_delete_dir", "g_finally", "u_abort_delete_dir", "u_finally"} =>
          Idempotent(fs, LAMBDA f : delete_dir(f, bkp_dir, 0))

\* an unguard about to remove the links: the forward links are there, and the
\* first call of Links.remove returns after removing them
C18_Witness ==
    /\ pc = "u_remove"
    /\ KindAt(fs, Src(T_envrc)) = "link"
    /\ KindAt(fs, Src(T_run)) = "link"
    /\ Links_remove(fs, targets, SourceDir, 0).ok
    /\ KindAt(Links_remove(fs, targets, SourceDir, 0).fs, Src(T_envrc)) = "none"
    /\ KindAt(Links_remove(fs, targets, SourceDir, 0).fs, Src(T_run)) = "none"

\* C19: in every state of an invocation in which the backup directory exists,
\* create_bkp raises by itself, whatever fault is chosen for its later system
\* calls, and leaves the file system, the backup directory included, as it is.
C19_CreateBkpRefusesExisting ==
    (pc # "idle" /\ LExists(fs, bkp_dir)) =>
        \A ft \in 0..(Len(targets) + 1) :
            create_bkp(fs, targets, BackedUp, bkp_dir, ft) = Raise(fs)

\* a guard about to call create_bkp on a project in which an earlier guard
\* left its backup directory behind, with the backup of a file in it
C19_Witness ==
    /\ pc = "g_create_bkp"
    /\ LExists(fs, bkp_dir)
    /\ KindAt(fs, bkp_dir \o T_envrc) = "file"
    /\ KindAt(fs, Src(T_envrc)) = "file"

\* C20: when guard or unguard has returned, with no fault injected, from an
\* invocation that found its backup directory already there, it ended with
\* exit 1 and the backup directory is still there with all that it held.
C20_PriorBackupPreserved ==
    (/\ pc = "idle" /\ op \in {"guard", "unguard"}
     /\ PreconditionPassed
     /\ injected = {}
     /\ LExists(fs0, bkp_dir)) =>
        /\ result = "exit1"
        /\ LExists(fs, bkp_dir)
        /\ Tree(fs, bkp_dir) = Tree(fs0, bkp_dir)

\* the paths that this invocation may write: the storage directory of its
\* sentinel, the configured target paths in the project, and its backup
\* directory, each with all that is under it
Writable(q) ==
    \/ IsPrefix(target_dir, q)
    \/ IsPrefix(bkp_dir, q)
    \/ \E t \in Targets : IsPrefix(Src(t), q)

\* C21: in every state of a guard or an unguard, and when it has returned,
\* failed or not, every path outside the storage directory of the sentinel,
\* the configured target paths and the backup directory is as it was when the
\* invocation started: not created, not changed, not deleted.  An invocation
\* rejected by its precondition check changes no path at all.
C21_WriteConfinement ==
    op \in {"guard", "unguard"} =>
        IF PreconditionPassed
        THEN \A q \in (DOMAIN fs) \cup (DOMAIN fs0) :
                ~Writable(q) => (q \in DOMAIN fs /\ q \in DOMAIN fs0 /\ fs[q] = fs0[q])
        ELSE fs = fs0

\* a guard that returned after moving its targets, in a project that holds a
\* file which is not a target
C21_Witness ==
    /\ Finished("guard") /\ result = "success"
    /\ targets = <<T_run, T_envrc>>
    /\ KindAt(fs0, Src(T_envrc)) = "file"
    /\ KindAt(fs, Src(T_envrc)) = "link"
    /\ KindAt(fs, Src(T_xxx)) = "file"
    /\ ~Writable(Src(T_xxx))

\* the back-link of sentinel k, and the back-links in its storage directory:
\* the symlinks there that lead to the project
BackLink(k) == Append(StorageDir(k), BackLinkName(k))
BackLinks(f, k) ==
    {q \in Children(f, StorageDir(k)) : f[q].kind = "link" /\ f[q].to = SourceDir}

\* after a guard that succeeded the back-link of the persisted sentinel is a
\* symlink that resolves to the project, and it is the only back-link in the
\* storage directory
BackLinkInPlace ==
    (Finished("guard") /\ result = "success") =>
        /\ disk # None
        /\ KindAt(fs, BackLink(disk)) = "link"
        /\ Real(fs, BackLink(disk), MaxLinkDepth) = SourceDir
        /\ BackLinks(fs, disk) = {BackLink(disk)}

\* C22: after a successful guard the storage directory of the persisted
\* sentinel holds exactly one back-link, named after the sentinel and
\* resolving to the project, and the storage root holds exactly one storage
\* directory of the project, the one named by the persisted sentinel.
C22_BackLinkPostcondition ==
    /\ BackLinkInPlace
    /\ (Finished("guard") /\ result = "success") =>
          Children(fs, ConfguardPath) = {StorageDir(disk)}

\* C23: when guard has returned after a fault during the move or the creation
\* of the links and the rollback ran, the storage root holds no directory of
\* the sentinel and no copy of a target, and the file system is as it was
\* before the guard.
C23_GuardRollbackClearsStorage ==
    GuardRolledBack =>
        /\ ~LExists(fs, target_dir)
        /\ fs = fs0

\* the invocation of name has returned with no fault injected, and is the
\* retry of an invocation of name that had failed with exit 1 after a call
\* raised: in the backup phase, or in the transaction with a rollback
Retried(name) ==
    /\ Finished(name)
    /\ injected = {}
    /\ prev.op = name
    /\ prev.result = "exit1"
    /\ prev.faults # {}

\* C24: a guard invoked again, with no fault, after a guard that failed is
\* let through by the precondition check and succeeds with the project
\* guarded; an unguard invoked again after an unguard that failed succeeds
\* with the sentinel cleared and no target left as a symlink.
C24_Retryability ==
    /\ Retried("guard") =>
          /\ result = "success"
          /\ disk # None
    /\ Retried("unguard") =>
          /\ result = "success"
          /\ disk = None
          /\ \A t \in Targets : KindAt(fs, Src(t)) # "link"

\* the storage root holds a storage directory of the project
StorageHeld(f) == Children(f, ConfguardPath) # {}

\* a configured target path in the project is a symlink into the storage root
LinkedIntoStorage(f) ==
    \E t \in Targets :
        KindAt(f, Src(t)) = "link" /\ IsPrefix(ConfguardPath, f[Src(t)].to)

\* C25: whenever control is back with the caller, after any guard or unguard,
\* the persisted sentinel is None exactly when the storage root holds no
\* directory of the project and no configured target path is a symlink into
\* the storage.
C25_TwoStateInvariant ==
    (pc = "idle" /\ valid /\ op \in {"none", "guard", "unguard"}) =>
        (disk = None <=> (~StorageHeld(fs) /\ ~LinkedIntoStorage(fs)))

\* the targets that existed when the run started, and the content of one
Originals == {t \in Targets : Regular(orig.fs, Src(t))}
Original(t) == Tree(orig.fs, Src(t))

\* the content of original t is at path p, as a regular file or directory
Holds(p, t) == Regular(fs, p) /\ Tree(fs, p) = Original(t)

\* C26: in a run whose targets are never edited, in every state, every
\* target that existed when the run started has its original content in the
\* project, in the storage directory of the sentinel or in the backup
\* directory of the invocation under way; when the invocation has returned
\* it has it in the project or in the storage directory of the sentinel.
C26_NoDataLoss ==
    (valid /\ targets = orig.targets) =>
        \A t \in Originals :
            \/ Holds(Src(t), t)
            \/ disk # None /\ Holds(Stored(disk, t), t)
            \/ pc # "idle" /\ Holds(target_dir \o t, t)
            \/ pc # "idle" /\ Holds(bkp_dir \o t, t)

\* the file system f without the backup directory d and the directories that
\* lead to it (create_bkp makes them with mkdir(parents=True)): the targets,
\* the links and the stored files
Outside(f, d) == Drop(f, Under(f, d) \cup {q \in DOMAIN f : IsPrefix(q, d)})

\* the create_bkp of the invocation under way has returned
BackupTaken ==
    /\ pc \in {"g_move_files", "g_create", "g_back_create", "g_rb_remove",
               "g_rb_back_remove", "g_rb_restore", "g_finally", "u_remove",
               "u_back_remove", "u_return_files", "u_sentinel_remove",
               "u_rb_restore", "u_rb_create", "u_rb_back_create", "u_finally"}
    /\ faults \cap {"g_create_bkp", "u_create_bkp"} = {}

\* C27: every step of guard or unguard that changes a path outside the backup
\* directory (a target renamed, a link created or removed, a file moved out
\* of the storage directory) is made after the create_bkp of the invocation
\* has returned without raising.
C27_BackupPrecedesMutation ==
    [][Outside(fs', bkp_dir') # Outside(fs, bkp_dir') => BackupTaken]_vars

\* a guard that has moved its targets, with the backup of a file in place
C27_Witness ==
    /\ pc = "g_create"
    /\ BackupTaken
    /\ KindAt(fs, bkp_dir \o T_envrc) = "file"
    /\ KindAt(fs0, Src(T_envrc)) = "file"
    /\ KindAt(fs, Src(T_envrc)) = "none"
    /\ KindAt(fs, target_dir \o T_envrc) = "file"

\* guard or unguard is about to call Links.remove
AtLinksRemove == pc \in {"g_rb_remove", "u_remove"}

\* Links.remove ended as r: if it returned, no target path that was a symlink
\* before the call is one after it
AllLinksRemoved(r) ==
    r.ok => \A t \in Targets :
                KindAt(fs, Src(t)) = "link" => KindAt(r.fs, Src(t)) # "link"

\* C28: in every state in which guard or unguard calls Links.remove, after
\* the call has returned no target path that was a symlink is still one,
\* a symlink whose destination does not exist included.
C28_RemoveEveryLink ==
    AtLinksRemove => AllLinksRemoved(Links_remove(fs, targets, SourceDir, 0))

\* Links.remove ended as r, returning or raising: every target path that was a
\* regular file or directory before the call is the same file or directory
\* with the same content after it
RegularKept(r) ==
    \A t \in Targets :
        Regular(fs, Src(t)) => Tree(r.fs, Src(t)) = Tree(fs, Src(t))

\* C29: in every state in which guard or unguard calls Links.remove, whatever
\* fault the call meets, every target path that exists and is not a symlink
\* is left as it is, with its content.
C29_RemoveKeepsRealData ==
    AtLinksRemove =>
        \A ft \in 0..Len(targets) :
            RegularKept(Links_remove(fs, targets, SourceDir, ft))

\* an unguard about to remove the links of a project in which one target is a
\* symlink and another a regular file
C29_Witness ==
    /\ pc = "u_remove"
    /\ T_xxx \in Targets
    /\ KindAt(fs, Src(T_envrc)) = "link"
    /\ KindAt(fs, Src(T_xxx)) = "file"
    /\ KindAt(Links_remove(fs, targets, SourceDir, 0).fs, Src(T_envrc)) = "none"
    /\ KindAt(Links_remove(fs, targets, SourceDir, 0).fs, Src(T_xxx)) = "file"

(***************************************************************************)
(* The services called on their own.  SpecServices starts from a project   *)
(* in which a guard is in flight (storage R/1, backup S/B) and whose       *)
(* targets .envrc and .run are each missing, regular, a symlink into the   *)
(* storage or a symlink whose destination is missing, and applies one      *)
(* service to it.  pc is "call" before the service runs and "returned"     *)
(* after it; op names the service, fs0 is the file system it was given.    *)
(***************************************************************************)
\* the content of a stored file that was edited through its link
C_edited == "edited"

\* what a target path of the project may be when a service is called
DestKinds == {"none", "regular", "changed", "other", "link", "dangling", "stored"}

\* the backup entry of target t with its content, when the backup has one
BackupEntry(t, has) ==
    IF ~has THEN <<>>
    ELSE IF t = T_envrc
    THEN (Append(SourceDir, CONFGUARD_BKP_DIR) \o t) :> FileN(C_envrc)
    ELSE ((Append(SourceDir, CONFGUARD_BKP_DIR) \o t) :> DirN)
         @@ (Append(Append(SourceDir, CONFGUARD_BKP_DIR) \o t, "a") :> FileN(C_run))

\* the stored copy of target t, as moved by move_files and edited since
StoredCopy(t) ==
    IF t = T_envrc
    THEN Stored(1, t) :> FileN(C_edited)
    ELSE (Stored(1, t) :> DirN) @@ (Append(Stored(1, t), "a") :> FileN(C_edited))

\* target t in the project: a regular file or directory as it was backed up,
\* one changed since (a directory with its file edited and a new file b), one
\* with other content (a directory holding only b), a symlink to its stored
\* copy, a symlink to a stored copy that is not there, nothing beside a stored
\* copy (the link removed), or nothing
Dest(t, kind) ==
    CASE kind = "none" -> <<>>
      [] kind = "regular" ->
            IF t = T_envrc THEN (SourceDir \o t) :> FileN(C_envrc)
            ELSE ((SourceDir \o t) :> DirN)
                 @@ (Append(SourceDir \o t, "a") :> FileN(C_run))
      [] kind = "changed" ->
            IF t = T_envrc THEN (SourceDir \o t) :> FileN(C_edited)
            ELSE ((SourceDir \o t) :> DirN)
                 @@ (Append(SourceDir \o t, "a") :> FileN(C_edited))
                 @@ (Append(SourceDir \o t, "b") :> FileN(C_edited))
      [] kind = "other" ->
            IF t = T_envrc THEN (SourceDir \o t) :> FileN(C_edited)
            ELSE ((SourceDir \o t) :> DirN)
                 @@ (Append(SourceDir \o t, "b") :> FileN(C_edited))
      [] kind = "link" -> ((SourceDir \o t) :> LinkN(Stored(1, t))) @@ StoredCopy(t)
      [] kind = "dangling" -> (SourceDir \o t) :> LinkN(Stored(1, t))
      [] kind = "stored" -> StoredCopy(t)

\* xxx/xxx.txt in the project, when it is there
Nested(hasT) ==
    IF hasT THEN (Append(SourceDir, "x") :> DirN) @@ ((SourceDir \o T_xxx) :> FileN(C_xxx))
    ELSE <<>>

\* a project with a guard in flight: the backup directory when it has been
\* made, with the entries it has
Guarding(kf, kd, hasT, hasB, bf, bd) ==
    (SourceDir :> DirN) @@ (ConfguardPath :> DirN) @@ (StorageDir(1) :> DirN)
    @@ (IF hasB THEN Append(SourceDir, CONFGUARD_BKP_DIR) :> DirN ELSE <<>>)
    @@ Dest(T_envrc, kf) @@ Dest(T_run, kd) @@ Nested(hasT)
    @@ BackupEntry(T_envrc, hasB /\ bf) @@ BackupEntry(T_run, hasB /\ bd)

InitServices ==
    /\ \E kf, kd \in DestKinds : \E hasT, hasB, bf, bd \in BOOLEAN :
          fs = Guarding(kf, kd, hasT, hasB, bf, bd)
    /\ targets \in TargetLists
    /\ valid = TRUE
    /\ mem = 1
    /\ disk = 1
    /\ pc = "call"
    /\ bkp_dir = Append(SourceDir, CONFGUARD_BKP_DIR)
    /\ target_dir = StorageDir(1)
    /\ exc = "none"
    /\ result = "none"
    /\ op = "none"
    /\ nops = 0
    /\ nfaults = 0
    /\ faults = {}
    /\ injected = {}
    /\ fs0 = fs
    /\ disk0 = 1
    /\ prev = [op |-> "none", result |-> "none", faults |-> {}, fs0 |-> fs]
    /\ orig = [fs |-> fs, targets |-> targets]
    /\ rel = NoCall
    /\ given = None

\* a service is called with fault choice ft and ends as r
ServiceCalled(name, r, ft) ==
    /\ pc = "call"
    /\ ft # 0 => r.inj
    /\ fs' = r.fs
    /\ pc' = "returned"
    /\ op' = name
    /\ result' = IF r.ok THEN "success" ELSE "error"
    /\ nfaults' = IF r.inj THEN nfaults + 1 ELSE nfaults
    /\ faults' = IF r.ok THEN faults ELSE {name}
    /\ injected' = IF r.inj THEN {name} ELSE injected
    /\ UNCHANGED <<mem, disk, targets, valid, bkp_dir, target_dir, exc, nops,
                   fs0, disk0, prev, orig, rel, given>>

\* files.restore_bkp(source_dir=source_dir, bkp_dir=bkp_dir), as _guard calls it
call_restore_bkp ==
    \E ft \in FaultChoices(Len(targets)) :
        ServiceCalled("restore_bkp",
                      restore_bkp(fs, targets, SourceDir, SourceDir, bkp_dir, ft), ft)

\* files.create_bkp(source_dir=source_dir, bkp_dir=bkp_dir), as _guard calls it
call_create_bkp ==
    \E ft \in FaultChoices(Len(targets) + 1) :
        ServiceCalled("create_bkp", create_bkp(fs, targets, SourceDir, bkp_dir, ft), ft)

\* files.move_files(source_dir, target_dir), as _guard calls it: the storage
\* directory is the one of a sentinel just drawn
call_move_files ==
    \E ft \in FaultChoices(Len(targets)) :
        ServiceCalled("move_files",
                      move_files(fs, targets, SourceDir, StorageDir(2), ft), ft)

\* self.move_files(target_dir, source_dir), as return_files calls it
call_move_back ==
    \E ft \in FaultChoices(Len(targets)) :
        ServiceCalled("move_back", move_files(fs, targets, target_dir, SourceDir, ft), ft)

\* lks.create(), as _guard calls it
call_Links_create ==
    \E ft \in FaultChoices(Len(targets)) :
        ServiceCalled("Links_create",
                      Links_create(fs, targets, SourceDir, target_dir, ft), ft)

NextServices ==
    \/ call_restore_bkp
    \/ call_create_bkp
    \/ call_move_files
    \/ call_move_back
    \/ call_Links_create

SpecServices == InitServices /\ [][NextServices]_vars

\* restore_bkp has returned without raising
Restored == pc = "returned" /\ op = "restore_bkp" /\ result = "success"

\* target t had an entry in the backup and was a symlink when restore_bkp
\* was called
LinkedWithBackup(t) == Exists(fs0, bkp_dir \o t) /\ KindAt(fs0, Src(t)) = "link"

\* C30: after restore_bkp has returned, every target that had an entry in the
\* backup and was a symlink is a regular file or directory with the content of
\* its backup entry, and the storage the links led into is as it was.
C30_RestoreReplacesSymlinks ==
    Restored =>
        \A t \in Targets :
            LinkedWithBackup(t) =>
                /\ Regular(fs, Src(t))
                /\ Tree(fs, Src(t)) = Tree(fs0, bkp_dir \o t)
                /\ Tree(fs, target_dir) = Tree(fs0, target_dir)

\* restore_bkp has returned, raising or not
RestoreEnded == pc = "returned" /\ op = "restore_bkp"

\* every path at or below p in f is in g with the same node
Preserved(f, g, p) == \A q \in Under(f, p) : q \in DOMAIN g /\ g[q] = f[q]

\* every path at or below the entry b of f is in g at or below p
Added(f, g, b, p) == \A q \in Under(f, b) : Rebase(q, b, p) \in DOMAIN g

\* C31: after restore_bkp, every target that was a regular file or directory
\* when it was called has every path it had, with the content it had, and when
\* the call returned without raising every path of its backup entry is there.
C31_RestorePreservesExisting ==
    RestoreEnded =>
        \A t \in Targets :
            Regular(fs0, Src(t)) =>
                /\ Preserved(fs0, fs, Src(t))
                /\ (result = "success" /\ Exists(fs0, bkp_dir \o t))
                      => Added(fs0, fs, bkp_dir \o t, Src(t))

\* create_bkp has returned without raising
BackupCreated == pc = "returned" /\ op = "create_bkp" /\ result = "success"

\* path q of the backup belongs to the entry of target t: it is at or below
\* the entry, or a directory above it
OfEntry(q, t) == IsPrefix(bkp_dir \o t, q) \/ IsPrefix(q, bkp_dir \o t)

\* C32: after create_bkp has returned without raising, the backup holds a copy
\* of every target that was a regular file or directory, no entry for a target
\* that was a symlink or missing and nothing else, and every path that existed
\* before the call is as it was.
C32_CreateBkpContents ==
    BackupCreated =>
        /\ \A t \in Targets :
              IF Regular(fs0, Src(t))
              THEN Tree(fs, bkp_dir \o t) = Tree(fs0, Src(t))
              ELSE ~LExists(fs, bkp_dir \o t)
        /\ \A q \in Under(fs, bkp_dir) \ {bkp_dir} :
              \E t \in Targets : Regular(fs0, Src(t)) /\ OfEntry(q, t)
        /\ \A q \in DOMAIN fs0 : q \in DOMAIN fs /\ fs[q] = fs0[q]
        /\ \A q \in DOMAIN fs : q \in DOMAIN fs0 \/ IsPrefix(bkp_dir, q)

\* a backup made of a project in which .envrc is a symlink, .run a directory
\* and xxx/xxx.txt a file: .run and xxx/xxx.txt are copied, .envrc is not
C32_Witness ==
    /\ BackupCreated
    /\ T_xxx \in Targets
    /\ KindAt(fs0, Src(T_envrc)) = "link"
    /\ Exists(fs0, Src(T_envrc))
    /\ KindAt(fs0, Src(T_run)) = "dir"
    /\ KindAt(fs, Append(bkp_dir \o T_run, "a")) = "file"
    /\ KindAt(fs, bkp_dir \o T_xxx) = "file"
    /\ KindAt(fs, bkp_dir \o T_envrc) = "none"

\* move_files has returned without raising
Moved == pc = "returned" /\ op \in {"move_files", "move_back"} /\ result = "success"

\* the directories the move was from and to
MovedFrom == IF op = "move_files" THEN SourceDir ELSE target_dir
MovedTo == IF op = "move_files" THEN StorageDir(2) ELSE SourceDir

\* C33: after move_files has returned without raising, the directory moved to
\* exists; every target that existed in the directory moved from is in the
\* directory moved to at the same relative path, with all it held, and is no
\* longer where it was; for a target that did not exist nothing was made or
\* changed in the directory moved to.
C33_MovePostcondition ==
    Moved =>
        /\ IsDir(fs, MovedTo)
        /\ \A t \in Targets :
              IF Exists(fs0, MovedFrom \o t)
              THEN /\ Exists(fs, MovedTo \o t)
                   /\ Tree(fs, MovedTo \o t) = Tree(fs0, MovedFrom \o t)
                   /\ ~LExists(fs, MovedFrom \o t)
              ELSE Tree(fs, MovedTo \o t) = Tree(fs0, MovedTo \o t)

\* a move into a new storage directory of a project in which .envrc is a file,
\* .run is missing and xxx/xxx.txt is a file
C33_Witness ==
    /\ Moved
    /\ op = "move_files"
    /\ T_xxx \in Targets
    /\ KindAt(fs0, Src(T_envrc)) = "file"
    /\ KindAt(fs0, Src(T_run)) = "none"
    /\ KindAt(fs0, Src(T_xxx)) = "file"
    /\ ~LExists(fs0, MovedTo)
    /\ KindAt(fs, MovedTo \o T_envrc) = "file"
    /\ KindAt(fs, MovedTo \o T_xxx) = "file"
    /\ KindAt(fs, MovedTo \o T_run) = "none"
    /\ KindAt(fs, Src(T_envrc)) = "none"

\* Links.create has returned, raising or not
LinksCreateEnded == pc = "returned" /\ op = "Links_create"

\* C34: after Links.create, when a target path held a file, a directory or a
\* symlink at the call, the call has raised and every such path holds what it
\* held.
C34_CreateRefusesOccupied ==
    LinksCreateEnded =>
        \A t \in Targets :
            LExists(fs0, Src(t)) =>
                /\ result = "error"
                /\ Tree(fs, Src(t)) = Tree(fs0, Src(t))

\* Links.create, with no fault injected, on targets .run, .envrc where .run is
\* free and .envrc is a symlink whose destination is missing: .run is linked,
\* the call raises at .envrc and the symlink is as it was
C34_Witness ==
    /\ LinksCreateEnded
    /\ injected = {}
    /\ targets = <<T_run, T_envrc>>
    /\ ~LExists(fs0, Src(T_run))
    /\ KindAt(fs0, Src(T_envrc)) = "link"
    /\ ~Exists(fs0, Src(T_envrc))
    /\ result = "error"
    /\ KindAt(fs, Src(T_run)) = "link"
    /\ fs[Src(T_envrc)] = fs0[Src(T_envrc)]

(***************************************************************************)
(* _create_relative_path called on its own: SpecPaths starts from an       *)
(* unguarded project and calls the function with every pair of paths of up *)
(* to MaxPathLen segments, absolute or relative.                           *)
(***************************************************************************)
\* the segments of the path arguments
Segments == {"a", "b"}

\* the segment lists of 1 to n segments
RECURSIVE SegLists(_)
SegLists(n) ==
    IF n = 0 THEN {<<>>}
    ELSE SegLists(n - 1) \cup {Append(l, x) : l \in SegLists(n - 1), x \in Segments}

\* the path arguments
PathArgs == {[abs |-> a, parts |-> l] : a \in BOOLEAN, l \in SegLists(MaxPathLen) \ {<<>>}}

InitPaths ==
    /\ fs = Project(TRUE, TRUE, FALSE, FALSE)
    /\ targets = <<T_run, T_envrc>>
    /\ valid = TRUE
    /\ mem = None
    /\ disk = None
    /\ pc = "call"
    /\ bkp_dir = <<>>
    /\ target_dir = <<>>
    /\ exc = "none"
    /\ result = "none"
    /\ op = "none"
    /\ nops = 0
    /\ nfaults = 0
    /\ faults = {}
    /\ injected = {}
    /\ fs0 = fs
    /\ disk0 = None
    /\ prev = [op |-> "none", result |-> "none", faults |-> {}, fs0 |-> fs]
    /\ orig = [fs |-> fs, targets |-> targets]
    /\ rel = NoCall
    /\ given = None

\* _create_relative_path(str(src_path), str(tgt_path)), as Links.create calls it
call_create_relative_path ==
    /\ pc = "call"
    /\ \E source, target \in PathArgs : rel' = create_relative_path(source, target)
    /\ pc' = "returned"
    /\ op' = "create_relative_path"
    /\ result' = IF rel'.ok THEN "success" ELSE "error"
    /\ UNCHANGED <<fs, mem, disk, targets, valid, bkp_dir, target_dir, exc, nops,
                   nfaults, faults, injected, fs0, disk0, prev, orig, given>>

NextPaths ==
    \/ call_create_relative_path

SpecPaths == InitPaths /\ [][NextPaths]_vars

\* _create_relative_path has returned or raised
RelativePathEnded == pc = "returned" /\ op = "create_relative_path"

\* the parent directory of a path argument, and the number of leading segments
\* the parent directories of two path arguments have in common
Dir(p) == SubSeq(p.parts, 1, Len(p.parts) - 1)
Common(a, b) ==
    CHOOSE n \in 0..Len(a) :
        /\ n <= Len(b)
        /\ SubSeq(a, 1, n) = SubSeq(b, 1, n)
        /\ ~(n < Len(a) /\ n < Len(b) /\ a[n + 1] = b[n + 1])

\* the relative path of the claim: ".." for every segment of the parent of
\* source beyond the common lead, the rest of the parent of target, and the
\* final name of target
RelativeAsStated(source, target) ==
    [j \in 1..(Len(Dir(source)) - Common(Dir(source), Dir(target))) |-> ".."]
    \o SubSeq(Dir(target), Common(Dir(source), Dir(target)) + 1, Len(Dir(target)))
    \o <<target.parts[Len(target.parts)]>>

\* C35: _create_relative_path raises, changing nothing, when one of its
\* arguments is not absolute, and otherwise returns ".." once per segment of
\* the parent of source beyond the longest common lead, then the remaining
\* segments of the parent of target, then the final name of target.
C35_RelativePath ==
    RelativePathEnded =>
        /\ fs = fs0
        /\ rel.ok <=> (rel.source.abs /\ rel.target.abs)
        /\ rel.ok => rel.ret = RelativeAsStated(rel.source, rel.target)

(***************************************************************************)
(* Sentinel called on its own: SpecSentinel starts from a project whose    *)
(* .confguard has been loaded, with or without a sentinel, and calls       *)
(* create, add, update and remove, each followed by load_confguard.  pc is *)
(* "call" when the document in memory is the file, "returned" after a      *)
(* call; disk0 is the sentinel of the file at the call, nops the number of *)
(* calls made, at most MaxOps.                                             *)
(***************************************************************************)
InitSentinel ==
    /\ fs = Project(TRUE, TRUE, FALSE, FALSE)
    /\ targets = <<T_run, T_envrc>>
    /\ valid = TRUE
    /\ disk \in {None} \cup Ids
    /\ mem = disk
    /\ pc = "call"
    /\ bkp_dir = <<>>
    /\ target_dir = <<>>
    /\ exc = "none"
    /\ result = "none"
    /\ op = "none"
    /\ nops = 0
    /\ nfaults = 0
    /\ faults = {}
    /\ injected = {}
    /\ fs0 = fs
    /\ disk0 = disk
    /\ prev = [op |-> "none", result |-> "none", faults |-> {}, fs0 |-> fs]
    /\ orig = [fs |-> fs, targets |-> targets]
    /\ rel = NoCall
    /\ given = None

\* a method of Sentinel is called with sentinel value s and fault choice ft and
\* ends as r
SentinelCalled(name, r, s, ft) ==
    /\ pc = "call"
    /\ nops < MaxOps
    /\ nops' = nops + 1
    /\ ft # 0 => r.inj
    /\ mem' = r.mem
    /\ disk' = r.disk
    /\ pc' = "returned"
    /\ op' = name
    /\ given' = s
    /\ disk0' = disk
    /\ result' = IF r.ok THEN "success" ELSE "error"
    /\ nfaults' = IF r.inj THEN nfaults + 1 ELSE nfaults
    /\ faults' = IF r.ok THEN {} ELSE {name}
    /\ injected' = IF r.inj THEN {name} ELSE {}
    /\ UNCHANGED <<fs, targets, valid, bkp_dir, target_dir, exc, fs0, prev, orig, rel>>

\* sentinel.create(), drawing the identifier k
call_Sentinel_create ==
    \E k \in Ids :
        SentinelCalled("create",
                       [mem |-> Sentinel_create(mem, disk, k).mem,
                        disk |-> Sentinel_create(mem, disk, k).disk,
                        ok |-> TRUE, inj |-> FALSE], k, 0)

\* confguard_add_sentinel(s)
call_add_sentinel ==
    \E s \in Ids : SentinelCalled("add", confguard_add_sentinel(mem, disk, s), s, 0)

\* confguard_update_sentinel(s)
call_update_sentinel ==
    \E s \in Ids :
        SentinelCalled("update", confguard_update_sentinel(mem, disk, s), s, 0)

\* sentinel.remove()
call_Sentinel_remove ==
    \E ft \in FaultChoices(1) :
        SentinelCalled("remove", Sentinel_remove(mem, disk, ft), None, ft)

\* sentinel.load_confguard(), the reload
call_load_confguard ==
    /\ pc = "returned"
    /\ mem' = load_confguard(mem, disk).mem
    /\ disk' = load_confguard(mem, disk).disk
    /\ pc' = "call"
    /\ UNCHANGED <<fs, targets, valid, bkp_dir, target_dir, exc, result, op, nops,
                   nfaults, faults, injected, fs0, disk0, prev, orig, rel, given>>

NextSentinel ==
    \/ call_Sentinel_create
    \/ call_add_sentinel
    \/ call_update_sentinel
    \/ call_Sentinel_remove
    \/ call_load_confguard

SpecSentinel == InitSentinel /\ [][NextSentinel]_vars

\* the method `name` of Sentinel has returned without raising
SentinelDone(name) == pc = "returned" /\ op = name /\ result = "success"

\* the method `name` has returned without raising and the file has been loaded
\* again
Reloaded(name) == pc = "call" /\ op = name /\ result = "success"

\* C36: Sentinel.create on a document that has a sentinel leaves the sentinel
\* in memory and in the file as it was; after add or update of s has returned
\* the sentinel is s, and after load_confguard it is s again; after remove has
\* returned and the file is loaded again the sentinel is None.
C36_SentinelPersistence ==
    /\ (SentinelDone("create") /\ disk0 # None) => (mem = disk0 /\ disk = disk0)
    /\ (SentinelDone("add") \/ SentinelDone("update")) => mem = given
    /\ (Reloaded("add") \/ Reloaded("update")) => mem = given
    /\ Reloaded("remove") => mem = None

\* an update of a document that had another sentinel, loaded again
C36_Witness ==
    /\ Reloaded("update")
    /\ disk0 # None
    /\ disk0 # given
    /\ mem = given

====
